---- MODULE Spec2Model ----
(***************************************************************************)
(* Model of src/lib.rs: Dirty<T>, a value of type T with a dirty flag that *)
(* write() sets and clear() resets.                                        *)
(*                                                                         *)
(* One cell is driven by a single-threaded caller.  Every method of the    *)
(* type is an operator from the cell before the call to the cell after it  *)
(* and the returned value; every action is one call made by the caller.    *)
(* The remaining variables are history variables: they record what the     *)
(* caller did and saw, and no method reads them.                           *)
(***************************************************************************)
EXTENDS Integers, Sequences, FiniteSets, TLC

\* Largest payload value of the model; T is 0..MaxVal.
MaxVal == 2
\* Longest run of consecutive calls of the same operation.
MaxRun == 3

\* The payload type T (i32 in the tests), cut to a finite range.
T == 0..MaxVal
\* T::default() for the integer payload of the tests.
T_default == 0

\* Option<&T>: None is the empty sequence, Some(v) the one-element sequence.
None == <<>>
Some(v) == <<v>>

\* The result of a method: the cell after the call and the returned values
\* (no value for unit and for the &mut T handle, one value otherwise).
Result(self, out) == [self |-> self, out |-> out]

VARIABLES
    cell,        \* the Dirty<T>: [value: T, dirty: BOOLEAN]
    handle,      \* TRUE while the &mut T returned by write() is still usable
    lastOp,      \* history: the operation of the last step
    prevOp,      \* history: the operation of the step before it
    arg,         \* history: the argument of the last step, <<>> if it has none
    ret,         \* history: the values the last step returned
    pre,         \* history: the cell before the last step
    run,         \* history: length of the current run of equal operations
    runStart,    \* history: the cell before the current run began
    atClear,     \* history: <<value>> at the most recent clear(), <<>> if none
    lastFlagOp,  \* history: the last of new, default, write, clear
    sinceRead,   \* history: "noread", or whether write() followed the last read()
    stored       \* history: <<v>> last assigned through a handle, <<>> if none

vars == <<cell, handle, lastOp, prevOp, arg, ret, pre, run, runStart,
          atClear, lastFlagOp, sinceRead, stored>>

----------------------------------------------------------------------------
\* The methods of Dirty<T>.

\* Mutant of new: the constructor leaves the flag unset.
new_clean(val) == [value |-> val, dirty |-> FALSE]

\* Dirty::new
new(val) == [value |-> val, dirty |-> TRUE]

\* Mutant of dirty: the query resets the flag it reports.
dirty_clears(self) == Result([self EXCEPT !.dirty = FALSE], <<self.dirty>>)

\* Dirty::dirty
dirty(self) == Result(self, <<self.dirty>>)

\* Mutant of write: the handle is returned without setting the flag.
write_noflag(self) == Result(self, <<>>)

\* Dirty::write: sets the flag; the returned handle aliases self.value.
write(self) == Result([self EXCEPT !.dirty = TRUE], <<>>)

\* Mutant of store: the handle refers to a copy, the cell keeps its value.
store_detached(self, v) == self

\* An assignment *h = v through the handle h returned by write().
store(self, v) == [self EXCEPT !.value = v]

\* Mutant of read: the read accessor clears the flag (the "read clears" variant).
read_clears(self) == Result([self EXCEPT !.dirty = FALSE], <<self.value>>)

\* Dirty::read
read(self) == Result(self, <<self.value>>)

\* Mutant of clear: the flag is flipped instead of reset.
clear_toggles(self) == Result([self EXCEPT !.dirty = ~self.dirty], <<>>)

\* Mutant of clear: the value is reset to T::default() along with the flag.
clear_resets(self) == Result([value |-> T_default, dirty |-> FALSE], <<>>)

\* Mutant of clear: the flag is left as it was.
clear_noop(self) == Result(self, <<>>)

\* Dirty::clear
clear(self) == Result([self EXCEPT !.dirty = FALSE], <<>>)

\* Mutant of read_dirty: the clean arm fails (an unwrap of nothing) and the
\* call returns no value.
read_dirty_unwrap(self) ==
    Result(self, IF self.dirty THEN <<Some(self.value)>> ELSE <<>>)

\* Mutant of read_dirty: the two match arms are swapped.
read_dirty_swapped(self) ==
    Result(self, <<IF self.dirty THEN None ELSE Some(self.value)>>)

\* Mutant of read_dirty: a present result consumes the flag.
read_dirty_consuming(self) ==
    Result([self EXCEPT !.dirty = FALSE],
           <<IF self.dirty THEN Some(self.value) ELSE None>>)

\* Dirty::read_dirty
read_dirty(self) ==
    Result(self, <<IF self.dirty THEN Some(self.value) ELSE None>>)

\* Mutant of deref: dereferencing acknowledges the value and clears the flag.
deref_clears(self) == Result([self EXCEPT !.dirty = FALSE], <<self.value>>)

\* <Dirty<T> as Deref>::deref
deref(self) == Result(self, <<self.value>>)

\* Mutant of default: the default cell is built with the flag unset.
default_clean == [value |-> T_default, dirty |-> FALSE]

\* <Dirty<T> as Default>::default
default == new(T_default)

----------------------------------------------------------------------------
\* History bookkeeping shared by the actions.

CanRun(op) == lastOp # op \/ run < MaxRun

Observe(op, a, out, before) ==
    /\ lastOp' = op
    /\ prevOp' = lastOp
    /\ arg' = a
    /\ ret' = out
    /\ pre' = before
    /\ run' = IF lastOp = op THEN run + 1 ELSE 1
    /\ runStart' = IF lastOp = op THEN runStart ELSE before

Fresh(c, op, a) ==
    /\ cell = c
    /\ handle = FALSE
    /\ lastOp = op
    /\ prevOp = "none"
    /\ arg = a
    /\ ret = <<>>
    /\ pre = c
    /\ run = 1
    /\ runStart = c
    /\ atClear = <<>>
    /\ lastFlagOp = op
    /\ sinceRead = "noread"
    /\ stored = <<>>

Init ==
    \/ \E v \in T : Fresh(new(v), "new", <<v>>)
    \/ Fresh(default, "default", <<>>)

----------------------------------------------------------------------------
\* The caller's steps.

\* let c = Dirty::new(v): the caller replaces its cell by a new one.
New(v) ==
    /\ CanRun("new")
    /\ cell' = new(v)
    /\ handle' = FALSE
    /\ Observe("new", <<v>>, <<>>, new(v))
    /\ atClear' = <<>>
    /\ lastFlagOp' = "new"
    /\ sinceRead' = "noread"
    /\ stored' = <<>>

\* let c = Dirty::default()
Default ==
    /\ CanRun("default")
    /\ cell' = default
    /\ handle' = FALSE
    /\ Observe("default", <<>>, <<>>, default)
    /\ atClear' = <<>>
    /\ lastFlagOp' = "default"
    /\ sinceRead' = "noread"
    /\ stored' = <<>>

\* c.dirty()
Dirty ==
    /\ CanRun("dirty")
    /\ cell' = dirty(cell).self
    /\ handle' = FALSE
    /\ Observe("dirty", <<>>, dirty(cell).out, cell)
    /\ UNCHANGED <<atClear, lastFlagOp, sinceRead, stored>>

\* let h = c.write(): a handle of an earlier write() is dead from here on.
Write ==
    /\ CanRun("write")
    /\ cell' = write(cell).self
    /\ handle' = TRUE
    /\ Observe("write", <<>>, write(cell).out, cell)
    /\ lastFlagOp' = "write"
    /\ sinceRead' = IF sinceRead = "noread" THEN "noread" ELSE "written"
    /\ UNCHANGED <<atClear, stored>>

\* *h = v, while the handle of the last write() is live.
Store(v) ==
    /\ handle
    /\ CanRun("store")
    /\ cell' = store(cell, v)
    /\ handle' = TRUE
    /\ Observe("store", <<v>>, <<>>, cell)
    /\ stored' = <<v>>
    /\ UNCHANGED <<atClear, lastFlagOp, sinceRead>>

\* c.read()
Read ==
    /\ CanRun("read")
    /\ cell' = read(cell).self
    /\ handle' = FALSE
    /\ Observe("read", <<>>, read(cell).out, cell)
    /\ sinceRead' = "nowrite"
    /\ UNCHANGED <<atClear, lastFlagOp, stored>>

\* c.clear()
Clear ==
    /\ CanRun("clear")
    /\ cell' = clear(cell).self
    /\ handle' = FALSE
    /\ Observe("clear", <<>>, clear(cell).out, cell)
    /\ atClear' = <<clear(cell).self.value>>
    /\ lastFlagOp' = "clear"
    /\ UNCHANGED <<sinceRead, stored>>

\* c.read_dirty()
ReadDirty ==
    /\ CanRun("read_dirty")
    /\ cell' = read_dirty(cell).self
    /\ handle' = FALSE
    /\ Observe("read_dirty", <<>>, read_dirty(cell).out, cell)
    /\ UNCHANGED <<atClear, lastFlagOp, sinceRead, stored>>

\* *c
Deref ==
    /\ CanRun("deref")
    /\ cell' = deref(cell).self
    /\ handle' = FALSE
    /\ Observe("deref", <<>>, deref(cell).out, cell)
    /\ UNCHANGED <<atClear, lastFlagOp, sinceRead, stored>>

Next ==
    \/ \E v \in T : New(v)
    \/ Default
    \/ Dirty
    \/ Write
    \/ \E v \in T : Store(v)
    \/ Read
    \/ Clear
    \/ ReadDirty
    \/ Deref

Spec == Init /\ [][Next]_vars

----------------------------------------------------------------------------
TypeOK ==
    /\ cell \in [value : T, dirty : BOOLEAN]
    /\ handle \in BOOLEAN
    /\ run \in 1..MaxRun
    /\ lastFlagOp \in {"new", "default", "write", "clear"}
    /\ sinceRead \in {"noread", "nowrite", "written"}

----------------------------------------------------------------------------
\* Claims.

\* C1: immediately after Dirty::new(v), for every v, the held value is v and
\* the flag is set, and a dirty() call made right then returns true.
C1_NewIsDirty ==
    /\ lastOp = "new" => (cell.dirty = TRUE /\ cell.value = arg[1])
    /\ (lastOp = "dirty" /\ prevOp = "new") => ret = <<TRUE>>

C1_Witness ==
    /\ lastOp = "dirty" /\ prevOp = "new"
    /\ ret = <<TRUE>> /\ cell.value = MaxVal

\* C2: after write() the flag is set, whatever the state before the call, and
\* also when the caller never assigns through the returned handle (the next
\* call is a dirty() query, which returns true).
C2_WriteSetsFlag ==
    /\ lastOp = "write" => cell.dirty = TRUE
    /\ (lastOp = "dirty" /\ prevOp = "write") => ret = <<TRUE>>

C2_Witness ==
    /\ lastOp = "dirty" /\ prevOp = "write" /\ ret = <<TRUE>>
    /\ stored = <<>> /\ atClear # <<>>

\* C3: in every reachable state, a held value that differs from the value at
\* the most recent clear() comes with a set flag (no false negative).
C3_NoMissedMutation ==
    (atClear # <<>> /\ cell.value # atClear[1]) => cell.dirty = TRUE

C3_Witness ==
    /\ atClear # <<>> /\ cell.value # atClear[1]
    /\ cell.dirty /\ lastOp = "store"

C5_ReadIsPure ==
    lastOp = "read" =>
        /\ ret = <<pre.value>>
        /\ cell = pre
        /\ cell = runStart

C5_Witness ==
    /\ lastOp = "read" /\ run = MaxRun
    /\ cell.dirty /\ cell = runStart

\* C6: after clear() the flag is unset, whatever the state before the call,
\* and the held value is the one before the call.
C6_ClearUnsetsFlag ==
    /\ lastOp = "clear" => (cell.dirty = FALSE /\ cell.value = pre.value)
    /\ (lastOp = "dirty" /\ prevOp = "clear") => ret = <<FALSE>>

C6_Witness ==
    /\ lastOp = "clear" /\ pre.dirty /\ ~cell.dirty
    /\ cell.value = MaxVal

\* C7: read_dirty() returns a value only if the value was modified since the
\* last read: with no write() after the most recent read(), it returns None.
C7_ReadDirtyOnlySinceRead ==
    (lastOp = "read_dirty" /\ sinceRead = "nowrite") => ret = <<None>>

\* C8: the flag goes from set to unset only in a clear() step.
C8_OnlyClearUnsets ==
    [][(cell.dirty /\ ~cell'.dirty) => lastOp' = "clear"]_vars

C8_Witness ==
    /\ lastOp = "clear" /\ prevOp = "read_dirty"
    /\ pre.dirty /\ ~cell.dirty

\* C9: once v was assigned through the handle returned by write(), the next
\* read() and the next deref return v, and so does a read_dirty() that
\* follows the assignment.
C9_WriteReadRoundTrip ==
    /\ (lastOp \in {"read", "deref"} /\ stored # <<>>) => ret = stored
    /\ (lastOp = "read_dirty" /\ prevOp = "store") => ret = <<Some(stored[1])>>

C9_Witness ==
    /\ lastOp = "read" /\ prevOp = "store"
    /\ stored = <<MaxVal>> /\ ret = <<MaxVal>>
    /\ pre.value = MaxVal /\ atClear = <<T_default>>

C11_DerefIsRead ==
    lastOp = "deref" =>
        /\ ret = <<pre.value>>
        /\ ret = read(pre).out
        /\ cell = read(pre).self
        /\ cell = pre

C11_Witness ==
    /\ lastOp = "deref" /\ prevOp = "read"
    /\ ret = <<MaxVal>> /\ ~cell.dirty /\ cell = pre

\* C12: Dirty::default() yields the state Dirty::new(T::default()) yields:
\* the held value is T's default and the flag is set, as dirty() and read()
\* called right after it report.
C12_DefaultIsNewDefault ==
    /\ lastOp = "default" =>
           /\ cell.value = T_default
           /\ cell.dirty = TRUE
           /\ cell = new(T_default)
    /\ (lastOp = "dirty" /\ prevOp = "default") => ret = <<TRUE>>
    /\ (lastOp = "read" /\ prevOp = "default") => ret = <<T_default>>

C12_Witness ==
    /\ lastOp = "default" /\ prevOp = "clear"
    /\ pre = default /\ cell.dirty /\ cell.value = T_default

\* C13: dirty() returns true exactly when the flag is set and false exactly
\* when it is not, and changes neither the flag nor the held value.
C13_DirtyIsPureQuery ==
    lastOp = "dirty" =>
        /\ (ret = <<TRUE>>) <=> (pre.dirty = TRUE)
        /\ (ret = <<FALSE>>) <=> (pre.dirty = FALSE)
        /\ cell = pre
        /\ cell = runStart

C13_Witness ==
    /\ lastOp = "dirty" /\ run = MaxRun
    /\ ret = <<FALSE>> /\ ~cell.dirty

\* C14: a clear() that directly follows a clear() changes nothing: the flag
\* is unset and the value is the one held before the first of the two.
C14_ClearIdempotent ==
    (lastOp = "clear" /\ run >= 2) =>
        /\ cell = pre
        /\ cell.dirty = FALSE
        /\ cell.value = runStart.value

C14_Witness ==
    /\ lastOp = "clear" /\ run >= 2
    /\ runStart.dirty /\ ~cell.dirty /\ cell.value = MaxVal

\* C15: a step of dirty(), read(), clear(), read_dirty(), deref, or of
\* write() itself, leaves the held value as it was; the value of a cell
\* changes only in an assignment through the handle of write().
C15_ValueOnlyThroughHandle ==
    [][/\ lastOp' \in {"dirty", "read", "clear", "read_dirty", "deref", "write"}
           => cell'.value = cell.value
       /\ cell'.value # cell.value => lastOp' \in {"store", "new", "default"}]_vars

C15_Witness ==
    /\ lastOp = "clear" /\ prevOp = "store"
    /\ stored = <<MaxVal>> /\ cell.value = MaxVal /\ pre.value = MaxVal

\* C16: the flag is unset exactly when the last of new, default, write and
\* clear was clear(), whatever the held value, whether or not a write changed
\* it, and whatever queries came in between; dirty() reports just that.
C16_FlagIsLastFlagOp ==
    /\ (cell.dirty = FALSE) <=> (lastFlagOp = "clear")
    /\ lastOp = "dirty" => ((ret = <<FALSE>>) <=> (lastFlagOp = "clear"))

C16_Witness ==
    /\ lastFlagOp = "write" /\ cell.dirty
    /\ atClear = <<cell.value>> /\ stored = <<>>
    /\ lastOp = "dirty" /\ prevOp = "read_dirty" /\ ret = <<TRUE>>

\* C17: dirty(), write(), read(), clear(), read_dirty() and deref can each be
\* called in every state, with the flag set or unset (up to the bound on runs
\* of equal calls); each call returns a value of its return type; and
\* read_dirty() with the flag unset returns None and leaves the cell as it was.
C17_Total ==
    /\ CanRun("dirty") => ENABLED Dirty
    /\ CanRun("write") => ENABLED Write
    /\ CanRun("read") => ENABLED Read
    /\ CanRun("clear") => ENABLED Clear
    /\ CanRun("read_dirty") => ENABLED ReadDirty
    /\ CanRun("deref") => ENABLED Deref
    /\ lastOp = "dirty" => ret \in {<<b>> : b \in BOOLEAN}
    /\ lastOp \in {"read", "deref"} => ret \in {<<v>> : v \in T}
    /\ lastOp \in {"write", "clear"} => ret = <<>>
    /\ lastOp = "read_dirty" => ret \in {<<None>>} \cup {<<Some(v)>> : v \in T}
    /\ (lastOp = "read_dirty" /\ pre.dirty = FALSE) => (ret = <<None>> /\ cell = pre)

C17_Witness ==
    /\ lastOp = "read_dirty" /\ prevOp = "dirty"
    /\ ~pre.dirty /\ ret = <<None>> /\ cell = pre
    /\ ENABLED Write /\ ENABLED ReadDirty

====
